---------------------------- MODULE Spec2Model ----------------------------
(***************************************************************************)
(* Model of the Aurora C runtime (src/runtime/c_runtime.c): the two output *)
(* primitives, the three heap wrappers and the panic handler, over the     *)
(* host facilities they call (stdio streams, the C heap, abort).           *)
(*                                                                         *)
(* Bytes are one-character strings, a C string is the sequence of its      *)
(* bytes before the terminating NUL, and a `const char*` argument is a     *)
(* record saying whether the pointer is null.                              *)
(***************************************************************************)
EXTENDS Integers, Sequences, FiniteSets, TLC

VARIABLES
    host,     \* buffering discipline of the two standard streams
    out,      \* standard output: [buf, sink]
    err,      \* standard error:  [buf, sink]
    status,   \* "running", "exited", "aborted" (SIGABRT) or "segv" (SIGSEGV)
    blocks,   \* live heap blocks: records [base, size]
    mem,      \* heap cells: address -> byte value, or Indet
    calls,    \* the output calls made so far, in call order
    last      \* the most recent runtime call: [op, arg, val]

vars == <<host, out, err, status, blocks, mem, calls, last>>

-----------------------------------------------------------------------------
(* Bounds of the model *)

MaxCalls == 2       \* output calls per run
BufSize  == 3       \* capacity of a stream buffer (the host's BUFSIZ)
MemSize  == 3       \* heap cells

Lines == {-7, 0, 42, 2147483647}   \* line numbers passed to panic

-----------------------------------------------------------------------------
(* C strings *)

NullStr == [null |-> TRUE, bytes |-> <<>>]

Str(s) == [null |-> FALSE, bytes |-> s]

Strings == {Str(<<>>), Str(<<"a", "b">>), Str(<<"c", "d">>)}

StrArgs == Strings \cup {NullStr}

PanicMsgs == {Str(<<"b", "o", "o", "m">>), NullStr}

PanicFiles == {Str(<<"x", ".", "a", "u">>), NullStr}

-----------------------------------------------------------------------------
(* stdio: formatted output *)

DigitChar(d) == <<"0", "1", "2", "3", "4", "5", "6", "7", "8", "9">>[d + 1]

RECURSIVE NatToDec(_)
NatToDec(n) ==
    IF n < 10 THEN <<DigitChar(n)>>
    ELSE NatToDec(n \div 10) \o <<DigitChar(n % 10)>>

\* the %d conversion
IntToDec(n) == IF n < 0 THEN <<"-">> \o NatToDec(-n) ELSE NatToDec(n)

\* what the host prints for a null %s argument when it does not fault
NullText == <<"(", "n", "u", "l", "l", ")">>

\* what the host may do with a null %s argument
NullPolicies == {"subst", "fault"}

\* One %s or %d conversion applied to argument a.
Convert(conv, a) ==
    IF conv = "s" THEN (IF a.null THEN NullText ELSE a.bytes)
    ELSE IntToDec(a)

\* printf-style formatting of fmt with args.  A null %s argument is
\* undefined behaviour: under policy "subst" the host substitutes
\* NullText, under "fault" it dereferences the pointer and faults, and
\* out is then what had been produced before the fault.
RECURSIVE Format(_, _, _)
Format(fmt, args, policy) ==
    IF fmt = <<>> THEN [out |-> <<>>, fault |-> FALSE]
    ELSE IF Head(fmt) = "%" THEN
        LET conv == fmt[2]
            a    == Head(args)
        IN  IF conv = "s" /\ a.null /\ policy = "fault"
            THEN [out |-> <<>>, fault |-> TRUE]
            ELSE LET rest == Format(SubSeq(fmt, 3, Len(fmt)), Tail(args), policy)
                 IN  [out |-> Convert(conv, a) \o rest.out, fault |-> rest.fault]
    ELSE LET rest == Format(Tail(fmt), args, policy)
         IN  [out |-> <<Head(fmt)>> \o rest.out, fault |-> rest.fault]

\* Faulty variants of the definitions that follow them; each property
\* below must tell the definition it rests on from its variant.

\* the newline left out of println's format
PrintlnFormatNoNewline == <<"%", "s">>

PrintlnFormat == <<"%", "s", "\n">>

\* a newline added to print's format
PrintFormatWithNewline == <<"%", "s", "\n">>

PrintFormat == <<"%", "s">>

\* the newline left out of panic's format
PanicFormatNoNewline ==
    <<"A", "u", "r", "o", "r", "a", " ", "p", "a", "n", "i", "c", " ",
      "a", "t", " ", "%", "s", ":", "%", "d", ":", " ", "%", "s">>

PanicFormat ==
    <<"A", "u", "r", "o", "r", "a", " ", "p", "a", "n", "i", "c", " ",
      "a", "t", " ", "%", "s", ":", "%", "d", ":", " ", "%", "s", "\n">>

-----------------------------------------------------------------------------
(* stdio: streams *)

StdoutModes == {"line", "full"}

\* the standard error stream is never fully buffered
StderrModes == {"unbuffered", "line"}

EmptyStream == [buf |-> <<>>, sink |-> <<>>]

Flush(s) == [buf |-> <<>>, sink |-> s.sink \o s.buf]

Discard(s) == [buf |-> <<>>, sink |-> s.sink]

Max(S) == CHOOSE x \in S : \A y \in S : y <= x

\* How many of the pending bytes a stream in mode m has passed on to its
\* sink: all of them when unbuffered; otherwise everything up to the last
\* newline (line-buffered), and after that each full buffer.
Flushed(pending, m) ==
    IF m = "unbuffered" THEN Len(pending)
    ELSE LET nl == IF m = "line"
                   THEN Max({0} \cup {i \in 1..Len(pending) : pending[i] = "\n"})
                   ELSE 0
         IN  nl + ((Len(pending) - nl) \div BufSize) * BufSize

\* The bytes bs written to stream s under buffering mode m.
StreamWrite(s, m, bs) ==
    LET pending == s.buf \o bs
        cut     == Flushed(pending, m)
    IN  [buf  |-> SubSeq(pending, cut + 1, Len(pending)),
         sink |-> s.sink \o SubSeq(pending, 1, cut)]

\* every byte the stream has accepted, in order
Content(s) == s.sink \o s.buf


\* abort(): the process ends by SIGABRT.  Whether unwritten buffered data
\* is flushed is implementation-defined.
Abort(s, flush) == IF flush THEN Flush(s) ELSE Discard(s)

-----------------------------------------------------------------------------
(* The C heap *)

NULL == 0

Addr == 1..MemSize

Indet == "indet"    \* an indeterminate cell value

Bytes == {"x", "y"} \* values the program stores into heap cells

Sizes == 0..MemSize \* sizes the program asks for

Min(a, b) == IF a < b THEN a ELSE b

\* The cells a block of n bytes at base occupies; a zero-sized block
\* still has an address of its own.
Footprint(base, n) == base..(base + (IF n = 0 THEN 1 ELSE n) - 1)

Used(bs) == UNION {Footprint(b.base, b.size) : b \in bs}

Fits(bs, base, n) == Footprint(base, n) \subseteq (Addr \ Used(bs))

Live(p) == \E b \in blocks : b.base = p

BlockAt(p) == CHOOSE b \in blocks : b.base = p

SizeOf(p) == BlockAt(p).size

LivePtrs == {b.base : b \in blocks}

\* mem with the cells of S made indeterminate
Scrub(m, S) == [a \in Addr |-> IF a \in S THEN Indet ELSE m[a]]

\* (variant) an allocator that hands out cells of live blocks
MallocOverlapping(n) ==
    {[ptr |-> NULL, blocks |-> blocks, mem |-> mem]}
    \cup {[ptr    |-> b,
           blocks |-> blocks \cup {[base |-> b, size |-> n]},
           mem    |-> Scrub(mem, Footprint(b, n))] :
             b \in {a \in Addr : Footprint(a, n) \subseteq Addr /\ ~Live(a)}}

\* malloc(n): null (failure, or the host's answer to a zero size), or a
\* fresh block that overlaps no live block, its bytes indeterminate.
Malloc(n) ==
    {[ptr |-> NULL, blocks |-> blocks, mem |-> mem]}
    \cup {[ptr    |-> b,
           blocks |-> blocks \cup {[base |-> b, size |-> n]},
           mem    |-> Scrub(mem, Footprint(b, n))] :
             b \in {a \in Addr : Fits(blocks, a, n)}}

\* free(p): nothing for null; otherwise the block is released.
Free(p) ==
    IF p = NULL THEN [blocks |-> blocks, mem |-> mem]
    ELSE [blocks |-> blocks \ {BlockAt(p)},
          mem    |-> Scrub(mem, Footprint(p, SizeOf(p)))]

\* (variant) a realloc that does not copy when it moves the block
ReallocNoCopy(p, n) ==
    LET m      == IF p = NULL THEN 0 ELSE SizeOf(p)
        oldFp  == IF p = NULL THEN {} ELSE Footprint(p, m)
        others == IF p = NULL THEN blocks ELSE blocks \ {BlockAt(p)}
        bases  == {a \in Addr : /\ Fits(others, a, n)
                                /\ \/ a = p
                                   \/ Footprint(a, n) \cap oldFp = {}}
        Moved(b) == [a \in Addr |->
                        IF b = p /\ a \in b..(b + Min(m, n) - 1) THEN mem[a]
                        ELSE IF a \in Footprint(b, n) \cup oldFp THEN Indet
                        ELSE mem[a]]
    IN  {[ptr |-> NULL, blocks |-> blocks, mem |-> mem]}
        \cup {[ptr    |-> b,
               blocks |-> others \cup {[base |-> b, size |-> n]},
               mem    |-> Moved(b)] : b \in bases}

\* (variant) a realloc that fails on a null pointer instead of allocating,
\* and otherwise resizes in place
ReallocRejectsNull(p, n) ==
    LET m      == IF p = NULL THEN 0 ELSE SizeOf(p)
        others == IF p = NULL THEN blocks ELSE blocks \ {BlockAt(p)}
    IN  {[ptr |-> NULL, blocks |-> blocks, mem |-> mem]}
        \cup (IF p # NULL /\ Fits(others, p, n)
              THEN {[ptr    |-> p,
                     blocks |-> others \cup {[base |-> p, size |-> n]},
                     mem    |-> Scrub(mem, (Footprint(p, m) \cup Footprint(p, n))
                                             \ (p..(p + Min(m, n) - 1)))]}
              ELSE {})

\* realloc(p, n): null with the old block untouched (failure); for a
\* zero size, possibly the old block freed and null returned; otherwise
\* a block of n bytes, in place or moved, holding the first min(m, n)
\* bytes of the old one, the old block released.
Realloc(p, n) ==
    LET m      == IF p = NULL THEN 0 ELSE SizeOf(p)
        oldFp  == IF p = NULL THEN {} ELSE Footprint(p, m)
        others == IF p = NULL THEN blocks ELSE blocks \ {BlockAt(p)}
        keep   == Min(m, n)
        bases  == {a \in Addr : /\ Fits(others, a, n)
                                /\ \/ a = p
                                   \/ Footprint(a, n) \cap oldFp = {}}
        Moved(b) == [a \in Addr |->
                        IF a \in b..(b + keep - 1) THEN mem[p + (a - b)]
                        ELSE IF a \in Footprint(b, n) \cup oldFp THEN Indet
                        ELSE mem[a]]
    IN  {[ptr |-> NULL, blocks |-> blocks, mem |-> mem]}
        \cup (IF p # NULL /\ n = 0
              THEN {[ptr |-> NULL, blocks |-> others, mem |-> Scrub(mem, oldFp)]}
              ELSE {})
        \cup {[ptr    |-> b,
               blocks |-> others \cup {[base |-> b, size |-> n]},
               mem    |-> Moved(b)] : b \in bases}

-----------------------------------------------------------------------------
(* State *)

Call(op, arg, val) == [op |-> op, arg |-> arg, val |-> val]

Init ==
    /\ host \in [stdout : StdoutModes, stderr : StderrModes]
    /\ out = EmptyStream
    /\ err = EmptyStream
    /\ status = "running"
    /\ blocks = {}
    /\ mem = [a \in Addr |-> Indet]
    /\ calls = <<>>
    /\ last = Call("start", NULL, NULL)

-----------------------------------------------------------------------------
(* The runtime's entry points *)

aurora_println(str) ==
    /\ status = "running"
    /\ Len(calls) < MaxCalls
    /\ IF ~str.null
       THEN out' = StreamWrite(out, host.stdout,
                            Format(PrintlnFormat, <<str>>, "fault").out)
       ELSE out' = out
    /\ calls' = Append(calls, [op |-> "println", arg |-> str])
    /\ last' = Call("println", str, NULL)
    /\ UNCHANGED <<host, err, status, blocks, mem>>

\* (variant) print without the null check: the null pointer reaches %s
aurora_print_unchecked(str) ==
    /\ status = "running"
    /\ Len(calls) < MaxCalls
    /\ \E policy \in NullPolicies :
          LET res == Format(PrintFormat, <<str>>, policy)
          IN  /\ out' = IF res.fault THEN Discard(out)
                        ELSE StreamWrite(out, host.stdout, res.out)
              /\ status' = IF res.fault THEN "segv" ELSE status
    /\ calls' = Append(calls, [op |-> "print", arg |-> str])
    /\ last' = Call("print", str, NULL)
    /\ UNCHANGED <<host, err, blocks, mem>>

aurora_print(str) ==
    /\ status = "running"
    /\ Len(calls) < MaxCalls
    /\ IF ~str.null
       THEN out' = StreamWrite(out, host.stdout,
                            Format(PrintFormat, <<str>>, "fault").out)
       ELSE out' = out
    /\ calls' = Append(calls, [op |-> "print", arg |-> str])
    /\ last' = Call("print", str, NULL)
    /\ UNCHANGED <<host, err, status, blocks, mem>>

aurora_alloc(size) ==
    /\ status = "running"
    /\ \E r \in Malloc(size) :
          /\ blocks' = r.blocks
          /\ mem' = r.mem
          /\ last' = Call("alloc", size, r.ptr)
    /\ UNCHANGED <<host, out, err, status, calls>>

\* (variant) a free that dereferences a null pointer
aurora_free_faults(ptr) ==
    /\ status = "running"
    /\ ptr = NULL \/ Live(ptr)
    /\ status' = IF ptr = NULL THEN "segv" ELSE status
    /\ blocks' = Free(ptr).blocks
    /\ mem' = Free(ptr).mem
    /\ last' = Call("free", ptr, NULL)
    /\ UNCHANGED <<host, out, err, calls>>

aurora_free(ptr) ==
    /\ status = "running"
    /\ ptr = NULL \/ Live(ptr)
    /\ blocks' = Free(ptr).blocks
    /\ mem' = Free(ptr).mem
    /\ last' = Call("free", ptr, NULL)
    /\ UNCHANGED <<host, out, err, status, calls>>

aurora_realloc(ptr, size) ==
    /\ status = "running"
    /\ ptr = NULL \/ Live(ptr)
    /\ \E r \in Realloc(ptr, size) :
          /\ blocks' = r.blocks
          /\ mem' = r.mem
          /\ last' = Call("realloc", [ptr |-> ptr, size |-> size], r.ptr)
    /\ UNCHANGED <<host, out, err, status, calls>>

\* (variant) a panic that prints the line and returns
aurora_panic_returns(msg, file, line) ==
    /\ status = "running"
    /\ \E policy \in {"subst"} :
          LET res == Format(PanicFormat, <<file, line, msg>>, policy)
          IN  err' = StreamWrite(err, host.stderr, res.out)
    /\ last' = Call("panic", [msg |-> msg, file |-> file, line |-> line], NULL)
    /\ UNCHANGED <<host, out, status, blocks, mem, calls>>

aurora_panic(msg, file, line) ==
    /\ status = "running"
    /\ \E policy \in NullPolicies, partial \in BOOLEAN, flush \in BOOLEAN :
          LET res     == Format(PanicFormat, <<file, line, msg>>, policy)
              emitted == IF res.fault /\ ~partial THEN <<>> ELSE res.out
              e       == StreamWrite(err, host.stderr, emitted)
          IN  IF res.fault
              THEN /\ status' = "segv"
                   /\ err' = Discard(e)
                   /\ out' = Discard(out)
              ELSE /\ status' = "aborted"
                   /\ err' = Abort(e, flush)
                   /\ out' = Abort(out, flush)
    /\ last' = Call("panic", [msg |-> msg, file |-> file, line |-> line], NULL)
    /\ UNCHANGED <<host, blocks, mem, calls>>

-----------------------------------------------------------------------------
(* The compiled program around the runtime *)

\* The program stores byte v at offset i of a block it owns.
Store(p, i, v) ==
    /\ status = "running"
    /\ Live(p)
    /\ i < SizeOf(p)
    /\ mem' = [mem EXCEPT ![p + i] = v]
    /\ last' = Call("store", p, NULL)
    /\ UNCHANGED <<host, out, err, status, blocks, calls>>

\* The program's main returns: exit(0) flushes the streams.
Exit ==
    /\ status = "running"
    /\ status' = "exited"
    /\ out' = Flush(out)
    /\ err' = Flush(err)
    /\ last' = Call("exit", NULL, NULL)
    /\ UNCHANGED <<host, blocks, mem, calls>>

-----------------------------------------------------------------------------
(* Specifications *)

PrintlnCall == \E s \in StrArgs : aurora_println(s)

PrintCall == \E s \in StrArgs : aurora_print(s)

PanicCall ==
    \E pm \in PanicMsgs, pf \in PanicFiles, pl \in Lines : aurora_panic(pm, pf, pl)

AllocCall == \E n \in Sizes : aurora_alloc(n)

FreeCall == \E p \in LivePtrs \cup {NULL} : aurora_free(p)

ReallocCall == \E p \in LivePtrs \cup {NULL}, n \in Sizes : aurora_realloc(p, n)

StoreStep == \E p \in LivePtrs, i \in 0..(MemSize - 1), v \in Bytes : Store(p, i, v)

\* output and termination
NextOut == PrintlnCall \/ PrintCall \/ PanicCall \/ Exit

SpecOut == Init /\ [][NextOut]_vars

\* the heap, with output calls interleaved; the streams' buffering has no
\* part in it and is that of a terminal
HeapStrArgs == {Str(<<"a", "b">>)}

HeapOutput == \E s \in HeapStrArgs : aurora_println(s)

NextHeap == AllocCall \/ FreeCall \/ ReallocCall \/ StoreStep \/ HeapOutput

InitHeap == Init /\ host = [stdout |-> "line", stderr |-> "unbuffered"]

SpecHeap == InitHeap /\ [][NextHeap]_vars

\* The whole program.  The streams and the heap share no state, so the
\* properties are checked under the two specifications above.
Next == NextOut \/ NextHeap

Spec == Init /\ [][Next]_vars

-----------------------------------------------------------------------------
(* Properties *)

Crashed == status \in {"aborted", "segv"}

IsPrefix(s, u) == Len(s) <= Len(u) /\ SubSeq(u, 1, Len(s)) = s

\* C1: aurora_panic never returns: once it has been called the process is
\* terminated abnormally (by a signal, never the normal exit), and no
\* further step of the program or the runtime is taken.
C1_PanicNeverReturns ==
    /\ [](last.op = "panic" => Crashed /\ status # "exited")
    /\ [][last.op # "panic"]_vars

C1_Witness == last.op = "panic" /\ status = "aborted"

\* the decimal rendering of the line numbers used, written out
Decimal(n) ==
    CASE n = -7 -> <<"-", "7">>
      [] n = 0  -> <<"0">>
      [] n = 42 -> <<"4", "2">>
      [] n = 2147483647 -> <<"2", "1", "4", "7", "4", "8", "3", "6", "4", "7">>

PanicLine(file, line, msg) ==
    <<"A", "u", "r", "o", "r", "a", " ", "p", "a", "n", "i", "c", " ", "a", "t", " ">>
    \o file \o <<":">> \o Decimal(line) \o <<":", " ">> \o msg \o <<"\n">>

\* C2: with non-null msg and file, standard error holds exactly the line
\* "Aurora panic at <file>:<line>: <message>\n" (all of it passed to the
\* host before the process ends, whatever abort does with buffers), the
\* process is aborted, and the call adds no byte to standard output.
C2_PanicDiagnostic ==
    /\ [](last.op = "panic" /\ ~last.arg.msg.null /\ ~last.arg.file.null
            => /\ err.sink = PanicLine(last.arg.file.bytes, last.arg.line,
                                       last.arg.msg.bytes)
               /\ err.buf = <<>>
               /\ status = "aborted")
    /\ [][last'.op = "panic" => IsPrefix(Content(out'), Content(out))]_vars

C2_Witness ==
    /\ last.op = "panic"
    /\ status = "aborted"
    /\ host.stderr = "line"
    /\ err.sink = <<"A", "u", "r", "o", "r", "a", " ", "p", "a", "n", "i", "c",
                    " ", "a", "t", " ", "x", ".", "a", "u", ":", "4", "2", ":",
                    " ", "b", "o", "o", "m", "\n">>

\* C3 (as claimed): with a null msg or file, "(null)" stands in the line in
\* the place of each null argument and the process is then aborted.
C3_NullSubstituted ==
    last.op = "panic" /\ (last.arg.msg.null \/ last.arg.file.null)
        => /\ err.sink =
                PanicLine(IF last.arg.file.null THEN <<"(", "n", "u", "l", "l", ")">>
                          ELSE last.arg.file.bytes,
                          last.arg.line,
                          IF last.arg.msg.null THEN <<"(", "n", "u", "l", "l", ")">>
                          ELSE last.arg.msg.bytes)
           /\ status = "aborted"

\* C4: aurora_println(s) with s non-null appends the bytes of s and one
\* newline to standard output, leaves standard error alone and returns.
C4_PrintlnAppendsLine ==
    [][\A s \in Strings :
          calls' = Append(calls, [op |-> "println", arg |-> s])
              => /\ Content(out') = Content(out) \o s.bytes \o <<"\n">>
                 /\ IsPrefix(out.sink, out'.sink)
                 /\ err' = err
                 /\ status' = "running"
                 /\ last'.op = "println"]_vars

C4_Witness ==
    /\ calls = <<[op |-> "println", arg |-> Str(<<"a", "b">>)]>>
    /\ Content(out) = <<"a", "b", "\n">>
    /\ Content(err) = <<>>
    /\ status = "exited"

\* the bytes one output call contributes
CallBytes(c) ==
    IF c.arg.null THEN <<>>
    ELSE c.arg.bytes \o (IF c.op = "println" THEN <<"\n">> ELSE <<>>)

RECURSIVE Concat(_)
Concat(cs) == IF cs = <<>> THEN <<>> ELSE CallBytes(Head(cs)) \o Concat(Tail(cs))

\* C5: while the process has not crashed, standard output is the
\* concatenation, in call order, of the bytes of each output call: s for
\* aurora_print(s), s and a newline for aurora_println(s).
C5_OutputIsConcatenation ==
    status \in {"running", "exited"} => Content(out) = Concat(calls)

C5_Witness ==
    /\ calls = <<[op |-> "print", arg |-> Str(<<"a", "b">>)],
                 [op |-> "println", arg |-> Str(<<"c", "d">>)]>>
    /\ Content(out) = <<"a", "b", "c", "d", "\n">>

\* C6: an output call with a null pointer writes nothing to either stream,
\* changes nothing else and returns with the process running.
C6_NullOutputIsNoOp ==
    [][\A op \in {"print", "println"} :
          calls' = Append(calls, [op |-> op, arg |-> NullStr])
              => /\ UNCHANGED <<host, out, err, status, blocks, mem>>
                 /\ status' = "running"
                 /\ last'.op = op]_vars

C6_Witness ==
    /\ calls = <<[op |-> "println", arg |-> NullStr],
                 [op |-> "println", arg |-> Str(<<"a", "b">>)]>>
    /\ Content(out) = <<"a", "b", "\n">>
    /\ Content(err) = <<>>
    /\ status = "running"

\* the bytes of live block b, in order
BytesOf(m, b) == [i \in 1..b.size |-> m[b.base + i - 1]]

\* this step is a free of, a realloc of, or a store into block b
Touches(b) ==
    \/ last'.op = "free" /\ last'.arg = b.base
    \/ last'.op = "realloc" /\ last'.arg.ptr = b.base
    \/ last'.op = "store" /\ last'.arg = b.base

\* C7: a successful aurora_alloc(n), n > 0, yields a live block of n bytes
\* inside the heap that shares no cell with another live block, and every
\* step other than a free of, a realloc of or a store into a live block
\* leaves that block live with the bytes it held.
C7_BlocksAreOwned ==
    /\ [](/\ \A b \in blocks : Footprint(b.base, b.size) \subseteq Addr
          /\ \A b1, b2 \in blocks :
                b1 # b2 => Footprint(b1.base, b1.size)
                             \cap Footprint(b2.base, b2.size) = {}
          /\ last.op = "alloc" /\ last.arg > 0 /\ last.val # NULL
                => [base |-> last.val, size |-> last.arg] \in blocks)
    /\ [][\A b \in blocks :
             ~Touches(b) => b \in blocks' /\ BytesOf(mem', b) = BytesOf(mem, b)]_vars

C7_Witness ==
    /\ last.op = "free"
    /\ last.arg # NULL
    /\ Len(calls) > 0
    /\ \E b \in blocks :
          b.size = 2 /\ BytesOf(mem, b) = <<"x", "y">>

\* C8: after a successful aurora_realloc(p, n) of a live block p of size
\* m, the block returned has size n and its first min(m, n) bytes are
\* those p held just before the call.
C8_ReallocPreserves ==
    [][last' # last /\ last'.op = "realloc"
           /\ last'.arg.ptr # NULL /\ last'.val # NULL
         => LET p == last'.arg.ptr
                q == last'.val
                n == last'.arg.size
                k == Min(SizeOf(p), n)
            IN  /\ [base |-> q, size |-> n] \in blocks'
                /\ \A i \in 0..(k - 1) : mem'[q + i] = mem[p + i]]_vars

C8_Witness ==
    /\ last.op = "realloc"
    /\ last.arg.ptr # NULL
    /\ last.val # NULL
    /\ last.val # last.arg.ptr
    /\ last.arg.size = 2
    /\ [base |-> last.val, size |-> 2] \in blocks
    /\ mem[last.val] = "x"
    /\ mem[last.val + 1] = Indet

\* C9: in every heap state and for every size n, aurora_realloc(null, n)
\* has exactly the outcomes of aurora_alloc(n) (the pointer returned and
\* the heap left behind), and a realloc call writes to neither stream.
C9_ReallocNullIsAlloc ==
    /\ [](\A n \in Sizes : Realloc(NULL, n) = Malloc(n))
    /\ [][last' # last /\ last'.op = "realloc" => UNCHANGED <<out, err, status>>]_vars

C9_Witness ==
    /\ last.op = "realloc"
    /\ last.arg.ptr = NULL
    /\ last.val # NULL
    /\ [base |-> last.val, size |-> last.arg.size] \in blocks
    /\ Cardinality(blocks) = 2

\* C10: aurora_free(null) changes neither the heap nor the streams and
\* returns with the process running.
C10_FreeNullIsNoOp ==
    [][last' # last /\ last'.op = "free" /\ last'.arg = NULL
         => /\ UNCHANGED <<host, out, err, status, blocks, mem, calls>>
            /\ status' = "running"]_vars

C10_Witness ==
    /\ last.op = "free"
    /\ last.arg = NULL
    /\ status = "running"
    /\ Content(out) # <<>>
    /\ \E b \in blocks : b.size = 2 /\ BytesOf(mem, b) = <<"x", "y">>

=============================================================================
